---- MODULE Spec2Model ----
(***************************************************************************)
(* The undo/redo history container of src/hooks/useHistoryState.ts.        *)
(*                                                                         *)
(* The hook keeps one React state cell {history, index}.  setState, undo   *)
(* and redo do not change that cell themselves: each hands an updater      *)
(* function to React's _setState, which queues it.  On the next render     *)
(* React runs the queued updaters one after another, in the order they     *)
(* were queued, each on the cell value left by the one before; the         *)
(* component body then reads the cell (line 15) and returns the derived    *)
(* views (lines 72-79).  Event handlers run between renders, so whatever   *)
(* a handler reads from its closure is the value of the last render.       *)
(*                                                                         *)
(* Two further parts model the video generation path: withRetry and the    *)
(* service functions of src/services/geminiService.ts, and                 *)
(* handleVeoOperation with checkVideoResolution of the editor page.        *)
(***************************************************************************)
EXTENDS Integers, Sequences, FiniteSets, TLC

\* Largest count a literal value handed to the container carries.
MaxVal == 2

\* Number of setState / undo / redo invocations made on one container.
MaxOps == 3

\* Number of setState invocations a sequential run starts with.
MaxCommits == 2

VARIABLES
    initialState,   \* the argument of useHistoryState (line 9)
    state,          \* the React state cell as of the last render: [history, index]
    queue,          \* updaters handed to _setState since the last render
    issued,         \* every invocation made so far, in order
    crashed,        \* a render threw: React has unmounted the component
    callbacks,      \* the memoized setState, undo and redo of the last render
    \* One call of a service function, and withRetry inside it
    version,        \* the file the service function is taken from
    serviceFn,      \* the service function called
    retryPc,        \* "idle", "calling", "waiting", "returned" or "thrown"
    attempts,       \* withRetry's local  attempts
    delay,          \* withRetry's local  delay
    apiCalls,       \* how many times the API call has been made
    waits,          \* the durations handed to setTimeout, in order
    failures,       \* the errors the API call has thrown, in order
    thrown,         \* the error that reached the caller of the service function
    uiError,        \* the message the page shows, by its kind
    \* One call of handleVeoOperation, and the caller's commit of its result
    veoPc,          \* "idle", "submit", "sleep", "check", "fetch", "verify",
                    \* "returned", "thrown" or "committed"
    veoAttempts,    \* handleVeoOperation's local  attempts
    operation,      \* its local  operation : the job handle
    veoLog,         \* what the current attempt did with the handle, in order
    videoUrl,       \* the object URL of the downloaded blob
    asset,          \* the asset handleVeoOperation returned
    animatedMockup, \* editorState.animatedMockup
    veoThrown,      \* the error handleVeoOperation threw
    \* The Database object of services/db.ts and the callers of getStore
    dbConn,         \* this.db : a connection, or 0 for null
    openRequest,    \* this.openRequest : the promise of an open request, or 0
    requests,       \* the indexedDB.open requests made: status and error
    connState,      \* the connections: "none", "open", "dying" or "closed"
    callPc,         \* per caller: "idle", "try", "retry", "done" or "failed"
    awaited,        \* per caller: the promise its await is waiting for
    caught,         \* per caller: the error the catch block retried on
    raised,         \* per caller: the error getStore threw
    given,          \* per caller: the connection of the store it was given
    \* The App component (App.tsx)
    view,           \* the state cell  view , as of the last render
    currentUser,    \* the state cell  currentUser , as of the last render
    isCheckingAuth, \* the state cell  isCheckingAuth , as of the last render
    appQueue,       \* the state updates made since the last render
    appPc,          \* "idle", or "setView" inside handleLoginSuccess
    logins,         \* the users whose login or registration is in progress
    \* The users store and one call of Database.createUser
    users,          \* the records of the users store, by id
    cuPc,           \* "idle", "put", "get", "returned" or "thrown"
    cuUser,         \* the argument  user
    cuCaught,       \* the error  e  of the catch block
    cuReturned,     \* the record createUser returned
    \* The editor page: its history of editor states and handleAnimate
    editor,         \* the cell of useHistoryState(INITIAL_EDITOR_STATE)
    isLoading,      \* the cell isLoading
    editorError,    \* the cell error: "null" or "message"
    animations,     \* how many times handleAnimate has been invoked
    tasks,          \* per invocation, the state of its two tasks
    animPc,         \* per invocation: "idle", "awaiting" (Promise.all) or "over"
    closure         \* per invocation, the editorState its closure holds

histVars == <<initialState, state, queue, issued, crashed, callbacks>>
retryVars == <<version, serviceFn, retryPc, attempts, delay, apiCalls, waits,
               failures, thrown, uiError>>
veoVars == <<veoPc, veoAttempts, operation, veoLog, videoUrl, asset,
             animatedMockup, veoThrown>>
dbVars == <<dbConn, openRequest, requests, connState, callPc, awaited, caught,
            raised, given>>
appVars == <<view, currentUser, isCheckingAuth, appQueue, appPc, logins>>
userVars == <<users, cuPc, cuUser, cuCaught, cuReturned>>
editorVars == <<editor, isLoading, editorError, animations, tasks, animPc, closure>>
outsideHistory == <<retryVars, veoVars, dbVars, appVars, userVars, editorVars>>
outsideRetry == <<histVars, veoVars, dbVars, appVars, userVars, editorVars>>
outsideVeo == <<histVars, retryVars, dbVars, appVars, userVars, editorVars>>
outsideDb == <<histVars, retryVars, veoVars, appVars, userVars, editorVars>>
outsideApp == <<histVars, retryVars, veoVars, dbVars, userVars, editorVars>>
outsideUsers == <<histVars, retryVars, veoVars, dbVars, appVars, editorVars>>
outsideEditor == <<histVars, retryVars, veoVars, dbVars, appVars, userVars>>
vars == <<histVars, retryVars, veoVars, dbVars, appVars, userVars, editorVars>>

----------------------------------------------------------------------------
(* Values of the type parameter T.  A value is an object with a numeric    *)
(* field  count  and an optional field  label  that is either absent or    *)
(* present with the value undefined.                                       *)

Value(n, l) == [count |-> n, label |-> l]

\* The literal values callers hand to the container.
Values == {Value(n, "absent") : n \in 0..MaxVal}

\* JSON.stringify of a value (line 31): a property whose value is undefined
\* is left out of the text, so only count is written.
JSONstringify(v) == "{count:" \o ToString(v.count) \o "}"

\* The equality the container decides by (line 31): equal JSON texts.
StructEq(a, b) == JSONstringify(a) = JSONstringify(b)

\* The update functions callers pass: prev => ({...prev, count: prev.count + 1})
\* and prev => ({...prev, label: undefined}).
UpdateFns == {"inc", "relabel"}

\* An update function that throws when it is called (line 27).
Throws(newState) == newState.kind = "fn" /\ newState.fn = "throw"

\* What an updater that threw leaves in place of a new cell value.
Thrown == [history |-> <<>>, index |-> 0 - 1]

CallFn(fn, prevState) ==
    IF fn = "inc"
    THEN [prevState EXCEPT !.count = @ + 1]
    ELSE [prevState EXCEPT !.label = "undefined"]

\* The first argument of setState: a literal T or a function of the previous T.
Literal(v)  == [kind |-> "lit", val |-> v, fn |-> "none"]
Function(f) == [kind |-> "fn", val |-> Value(0, "absent"), fn |-> f]

NewStates == {Literal(v) : v \in Values} \cup {Function(f) : f \in UpdateFns}

----------------------------------------------------------------------------
(* The three updaters.  history is a TLA+ sequence (first element at 1);   *)
(* index is the code's 0-based index, so history[index + 1] is the code's  *)
(* history[index].                                                         *)

Current(s) == s.history[s.index + 1]

\* Lines 26-28.
Resolve(newState, currentState) ==
    IF newState.kind = "fn"
    THEN CallFn(newState.fn, Current(currentState))
    ELSE newState.val

\* setState as it would be without the functional update of line 23: the
\* new cell value is computed from the history and index of the last render.
SetStateUpdaterStale(currentState, newState, overwriteHistory) ==
    LET resolvedState == Resolve(newState, state)
    IN  IF JSONstringify(resolvedState) = JSONstringify(state.history[state.index + 1])
        THEN state
        ELSE LET historyToConsider ==
                     IF overwriteHistory THEN <<>>
                     ELSE SubSeq(state.history, 1, state.index + 1)
                 newHistory == Append(historyToConsider, resolvedState)
             IN  [history |-> newHistory, index |-> Len(newHistory) - 1]

\* setState without the equality test of lines 30-33.
SetStateUpdaterNoEq(currentState, newState, overwriteHistory) ==
    LET historyToConsider ==
            IF overwriteHistory THEN <<>>
            ELSE SubSeq(currentState.history, 1, currentState.index + 1)
        newHistory == Append(historyToConsider, Resolve(newState, currentState))
    IN  [history |-> newHistory, index |-> Len(newHistory) - 1]

\* setState with the slice of line 36 one short: slice(0, currentIndex).
SetStateUpdaterShortSlice(currentState, newState, overwriteHistory) ==
    LET resolvedState == Resolve(newState, currentState)
    IN  IF JSONstringify(resolvedState) = JSONstringify(Current(currentState))
        THEN currentState
        ELSE LET historyToConsider ==
                     IF overwriteHistory THEN <<>>
                     ELSE SubSeq(currentState.history, 1, currentState.index)
                 newHistory == Append(historyToConsider, resolvedState)
             IN  [history |-> newHistory, index |-> Len(newHistory) - 1]

\* setState without the slice of line 36: the entries after the index stay.
SetStateUpdaterKeepFuture(currentState, newState, overwriteHistory) ==
    LET resolvedState == Resolve(newState, currentState)
    IN  IF JSONstringify(resolvedState) = JSONstringify(Current(currentState))
        THEN currentState
        ELSE LET historyToConsider ==
                     IF overwriteHistory THEN <<>> ELSE currentState.history
                 newHistory == Append(historyToConsider, resolvedState)
             IN  [history |-> newHistory, index |-> Len(newHistory) - 1]

\* setState with the slice of line 36 done before the function is called,
\* and the sliced cell returned when the call throws.
SetStateUpdaterSliceFirst(currentState, newState, overwriteHistory) ==
    LET historyToConsider ==
            IF overwriteHistory THEN <<>>
            ELSE SubSeq(currentState.history, 1, currentState.index + 1)
    IN  IF Throws(newState)
        THEN [history |-> SubSeq(currentState.history, 1, currentState.index + 1),
              index |-> currentState.index]
        ELSE LET resolvedState == Resolve(newState, currentState)
             IN  IF JSONstringify(resolvedState) = JSONstringify(Current(currentState))
                 THEN currentState
                 ELSE [history |-> Append(historyToConsider, resolvedState),
                       index |-> Len(historyToConsider)]

\* Lines 23-43: the updater setState hands to _setState.  When the update
\* function throws (line 27) the updater throws: it has assigned nothing.
SetStateUpdater(currentState, newState, overwriteHistory) ==
    IF Throws(newState) THEN Thrown
    ELSE
    LET currentHistory == currentState.history
        currentIndex == currentState.index
        resolvedState == Resolve(newState, currentState)
    IN  IF JSONstringify(resolvedState) = JSONstringify(currentHistory[currentIndex + 1])
        THEN currentState
        ELSE LET historyToConsider ==
                     IF overwriteHistory THEN <<>>
                     ELSE SubSeq(currentHistory, 1, currentIndex + 1)
                 newHistory == Append(historyToConsider, resolvedState)
             IN  [history |-> newHistory, index |-> Len(newHistory) - 1]

\* The dependency lists of the three useCallback calls (lines 44, 57, 70).
SetStateDepsOnState == <<state.history, state.index>>

SetStateDeps == <<>>
UndoDeps == <<>>
RedoDeps == <<>>

\* useCallback: the memoized function is kept while the dependencies are
\* the same as at the render before, and is a new function otherwise.
\* ref counts the functions created so far.
UseCallback(memo, deps) ==
    IF memo.deps = deps THEN memo
    ELSE [ref |-> memo.ref + 1, deps |-> deps]

\* undo that also drops the entries after the new index.
UndoUpdaterPop(currentState) ==
    IF currentState.index > 0
    THEN [history |-> SubSeq(currentState.history, 1, currentState.index),
          index |-> currentState.index - 1]
    ELSE currentState

\* undo without the test of line 52.
UndoUpdaterNoGuard(currentState) ==
    [currentState EXCEPT !.index = currentState.index - 1]

\* Lines 51-56.
UndoUpdater(currentState) ==
    IF currentState.index > 0
    THEN [currentState EXCEPT !.index = currentState.index - 1]
    ELSE currentState

\* redo with the test of line 65 one short: index < history.length - 2.
RedoUpdaterShort(currentState) ==
    IF currentState.index < Len(currentState.history) - 2
    THEN [currentState EXCEPT !.index = currentState.index + 1]
    ELSE currentState

\* Lines 64-69.
RedoUpdater(currentState) ==
    IF currentState.index < Len(currentState.history) - 1
    THEN [currentState EXCEPT !.index = currentState.index + 1]
    ELSE currentState

\* canUndo with the test of line 77 off by one: index >= 0.
canUndoFromZero == state.index >= 0

\* Lines 72-79: the views a render returns.
current == state.history[state.index + 1]
canUndo == state.index > 0
canRedo == state.index < Len(state.history) - 1

----------------------------------------------------------------------------
(* Invocations.                                                            *)

SetStateCall(newState, overwriteHistory) ==
    [op |-> "setState", newState |-> newState, overwriteHistory |-> overwriteHistory]
UndoCall == [op |-> "undo", newState |-> Function("none"), overwriteHistory |-> FALSE]
RedoCall == [op |-> "redo", newState |-> Function("none"), overwriteHistory |-> FALSE]

\* The updater an invocation queued, applied to a cell value.
RunUpdater(call, currentState) ==
    CASE call.op = "setState" ->
             SetStateUpdater(currentState, call.newState, call.overwriteHistory)
      [] call.op = "undo" -> UndoUpdater(currentState)
      [] call.op = "redo" -> RedoUpdater(currentState)

\* React's processing of an update queue: the updaters run in queue order,
\* each on the result of the one before.
RECURSIVE RunQueue(_, _)
RunQueue(q, baseState) ==
    IF q = <<>> \/ baseState = Thrown THEN baseState
    ELSE RunQueue(Tail(q), RunUpdater(Head(q), baseState))

-----------------------------------------------------------------------------
(* The service functions and withRetry.  An error is modelled by the words *)
(* of its  message  and of its  toString()  form; a thrown value that is   *)
(* not an Error object has no message.  String.includes is membership of   *)
(* a word.                                                                 *)

MaxRetries == 3
InitialDelay == 2000

Versions == {"geminiService", "part_011", "part_012", "FlowstateUnified"}
ContentFns == {"transformImage"}
VideoFns == {"generateFlexibleVideo", "generateVideoFromImage",
             "checkVideoOperationStatus"}
ServiceFns == ContentFns \cup VideoFns

\* Whether the service function hands its API call to withRetry.
Wrapped(v, f) == f \in ContentFns \/ v = "part_012"

Error(message, string) == [message |-> message, string |-> string]
NoError == Error(<<>>, <<>>)
Errors ==
    { Error(<<"503", "Service", "Unavailable">>,
            <<"Error:", "503", "Service", "Unavailable">>),
      Error(<<"The", "model", "is", "overloaded">>,
            <<"Error:", "The", "model", "is", "overloaded">>),
      Error(<<"UNAVAILABLE">>, <<"Error:", "UNAVAILABLE">>),
      Error(<<"429", "quota", "exceeded">>,
            <<"Error:", "429", "quota", "exceeded">>),
      Error(<<>>, <<"503">>) }
Exhausted ==
    Error(<<"Exhausted", "all", "retries.">>,
          <<"Error:", "Exhausted", "all", "retries.">>)

Lower(word) ==
    CASE word = "Service" -> "service"
      [] word = "Unavailable" -> "unavailable"
      [] word = "UNAVAILABLE" -> "unavailable"
      [] word = "The" -> "the"
      [] word = "Error:" -> "error:"
      [] word = "Exhausted" -> "exhausted"
      [] OTHER -> word
ToLowerCase(text) == [i \in DOMAIN text |-> Lower(text[i])]
Includes(text, marker) == \E i \in DOMAIN text : text[i] = marker

\* (error.message || error.toString()).toLowerCase(), and
\* (error.message || '').toLowerCase() in FlowstateUnified.
ErrorMessage(v, error) ==
    ToLowerCase(IF error.message # <<>> THEN error.message
                ELSE IF v = "FlowstateUnified" THEN <<>>
                ELSE error.string)

IsRetryable(v, error) ==
    LET errorMessage == ErrorMessage(v, error)
    IN  \/ Includes(errorMessage, "503")
        \/ v # "FlowstateUnified" /\ Includes(errorMessage, "unavailable")
        \/ Includes(errorMessage, "overloaded")

\* The test of the catch block, with  attempts  already incremented.
ShouldRetryInclusive(v, error, n) == IsRetryable(v, error) /\ n <= MaxRetries

ShouldRetry(v, error, n) == IsRetryable(v, error) /\ n < MaxRetries

\* delay *= 2
NextDelaySame(d) == d

NextDelay(d) == d * 2

RetryInit ==
    /\ version = "none"
    /\ serviceFn = "none"
    /\ retryPc = "idle"
    /\ attempts = 0
    /\ delay = 0
    /\ apiCalls = 0
    /\ waits = <<>>
    /\ failures = <<>>
    /\ thrown = NoError
    /\ uiError = "none"

\* A caller invokes a service function; the function makes its API call,
\* inside withRetry (whose locals are initialised) or directly.
ServiceCall ==
    \E v \in Versions, f \in ServiceFns :
        /\ retryPc = "idle"
        /\ version' = v
        /\ serviceFn' = f
        /\ IF Wrapped(v, f)
           THEN attempts' = 0 /\ delay' = InitialDelay
           ELSE UNCHANGED <<attempts, delay>>
        /\ retryPc' = "calling"
        /\ UNCHANGED <<apiCalls, waits, failures, thrown, uiError, outsideRetry>>

\* The API call resolves: withRetry returns its value.
ApiReturns ==
    /\ retryPc = "calling"
    /\ apiCalls' = apiCalls + 1
    /\ retryPc' = "returned"
    /\ UNCHANGED <<version, serviceFn, attempts, delay, waits, failures, thrown,
                   uiError, outsideRetry>>

\* The API call rejects.  Outside withRetry the error is the caller's; in
\* withRetry the catch block counts the attempt and either starts the
\* timer or rethrows.
ApiThrows ==
    \E error \in Errors :
        /\ retryPc = "calling"
        /\ apiCalls' = apiCalls + 1
        /\ failures' = Append(failures, error)
        /\ IF ~Wrapped(version, serviceFn)
           THEN /\ retryPc' = "thrown"
                /\ thrown' = error
                /\ UNCHANGED <<attempts, waits>>
           ELSE /\ attempts' = attempts + 1
                /\ IF ShouldRetry(version, error, attempts + 1)
                   THEN /\ retryPc' = "waiting"
                        /\ waits' = Append(waits, delay)
                        /\ UNCHANGED thrown
                   ELSE /\ retryPc' = "thrown"
                        /\ thrown' = error
                        /\ UNCHANGED waits
        /\ UNCHANGED <<version, serviceFn, delay, uiError, outsideRetry>>

\* The timer fires: the delay is doubled and the loop test is made again.
RetryTimer ==
    /\ retryPc = "waiting"
    /\ delay' = NextDelay(delay)
    /\ IF attempts < MaxRetries
       THEN retryPc' = "calling" /\ UNCHANGED thrown
       ELSE retryPc' = "thrown" /\ thrown' = Exhausted
    /\ UNCHANGED <<version, serviceFn, attempts, apiCalls, waits, failures, uiError,
                   outsideRetry>>

\* getFriendlyErrorMessage (part_011 lines 38-61, FlowstateUnified lines
\* 79-101): the kind of the message, found by the first test that matches.
\* A phrase the code looks for is one word here.
GetFriendlyErrorMessage(error) ==
    LET msg == ToLowerCase(IF error.message # <<>> THEN error.message
                           ELSE error.string)
    IN  IF \/ Includes(msg, "api key")
           \/ Includes(msg, "403")
           \/ Includes(msg, "requested entity was not found")
        THEN "API Key Error"
        ELSE IF \/ Includes(msg, "safety")
                \/ Includes(msg, "blocked")
                \/ Includes(msg, "policy")
        THEN "Content Blocked"
        ELSE IF Includes(msg, "quota") \/ Includes(msg, "429")
        THEN "Quota Exceeded"
        ELSE IF Includes(msg, "503") \/ Includes(msg, "overloaded")
        THEN "Service Overloaded"
        ELSE IF Includes(msg, "400") \/ Includes(msg, "invalid_argument")
        THEN "Invalid Input"
        ELSE IF Includes(msg, "candidate")
        THEN "Generation Failed"
        ELSE "An unexpected error occurred"

\* The page catches the error of a service call and shows its message.
ReportError ==
    /\ retryPc = "thrown"
    /\ version \in {"part_011", "FlowstateUnified"}
    /\ uiError' = GetFriendlyErrorMessage(thrown)
    /\ retryPc' = "reported"
    /\ UNCHANGED <<version, serviceFn, attempts, delay, apiCalls, waits, failures,
                   thrown, outsideRetry>>

RetryNext ==
    \/ ServiceCall
    \/ ApiReturns
    \/ ApiThrows
    \/ RetryTimer
    \/ ReportError

-----------------------------------------------------------------------------
(* handleVeoOperation and checkVideoResolution (EditorPage, part_016).     *)
(* A job handle carries the job, how many status checks have refreshed it, *)
(* the done flag and the download link (0 when the response has none).     *)
(* A downloaded video is known by the attempt that downloaded it, its      *)
(* intrinsic size, and whether its metadata loads.                         *)

MaxAttempts == 3
MinResolution == 1080

\* Number of status checks after which the service reports a job done.
MaxPolls == 2

PollIntervalGrowing == 5000 * (1 + Len(veoLog))

PollInterval == 5000

Operation(job, refreshed, done, uri) ==
    [job |-> job, refreshed |-> refreshed, done |-> done, uri |-> uri]
NoOperation == Operation(0, 0, FALSE, 0)

\* What the service answers to a submission and to a status check: a job
\* is done after MaxPolls checks at the latest, and only a done job can
\* carry a link.
Replies(job, refreshed) ==
    (IF refreshed < MaxPolls THEN {Operation(job, refreshed, FALSE, 0)} ELSE {})
        \cup { Operation(job, refreshed, TRUE, uri) : uri \in {0, job} }

Video(id, videoWidth, videoHeight, loads) ==
    [id |-> id, videoWidth |-> videoWidth, videoHeight |-> videoHeight,
     loads |-> loads]
NoVideo == Video(0, 0, 0, FALSE)
Resolutions ==
    {<<1920, 1080>>, <<1080, 1920>>, <<1280, 720>>, <<1079, 1079>>, <<854, 480>>}
Downloads(id) ==
    { Video(id, r[1], r[2], TRUE) : r \in Resolutions } \cup { Video(id, 0, 0, FALSE) }

Asset(type, processedUrl) == [type |-> type, processedUrl |-> processedUrl]
NoAsset == Asset("none", NoVideo)

LowResolution ==
    Error(<<"Failed", "to", "generate", "video", "in", "1080p", "after",
            "multiple", "attempts.">>,
          <<"Error:", "Failed", "to", "generate", "video", "in", "1080p",
            "after", "multiple", "attempts.">>)

Event(ev, ms, op) == [ev |-> ev, ms |-> ms, op |-> op]

\* checkVideoResolution: onloadedmetadata resolves the comparison, onerror
\* resolves false.
CheckVideoResolutionOnError(video) ==
    IF video.loads
    THEN video.videoWidth >= MinResolution \/ video.videoHeight >= MinResolution
    ELSE TRUE

CheckVideoResolution(video) ==
    IF video.loads
    THEN video.videoWidth >= MinResolution \/ video.videoHeight >= MinResolution
    ELSE FALSE

VeoInit ==
    /\ veoPc = "idle"
    /\ veoAttempts = 0
    /\ operation = NoOperation
    /\ veoLog = <<>>
    /\ videoUrl = NoVideo
    /\ asset = NoAsset
    /\ animatedMockup = NoAsset
    /\ veoThrown = NoError

\* The outer loop with the test  attempts <= maxAttempts .
LoopHeadInclusive(n) ==
    IF n <= MaxAttempts
    THEN /\ veoAttempts' = n + 1
         /\ veoPc' = "submit"
         /\ UNCHANGED veoThrown
    ELSE /\ veoAttempts' = n
         /\ veoPc' = "thrown"
         /\ veoThrown' = LowResolution

\* The outer loop without  attempts++ .
LoopHeadUncounted(n) ==
    /\ veoAttempts' = n
    /\ veoPc' = "submit"
    /\ UNCHANGED veoThrown

\* The test of the outer loop with  attempts = n : another attempt is
\* counted and videoGenerator is called, or the function throws.
LoopHead(n) ==
    IF n < MaxAttempts
    THEN /\ veoAttempts' = n + 1
         /\ veoPc' = "submit"
         /\ UNCHANGED veoThrown
    ELSE /\ veoAttempts' = n
         /\ veoPc' = "thrown"
         /\ veoThrown' = LowResolution

\* The assignment of a reply to  operation , the test of the poll loop,
\* and what follows the loop up to the next await.
PollTest(op, log) ==
    /\ operation' = op
    /\ IF ~op.done
       THEN /\ veoPc' = "sleep"
            /\ veoLog' = Append(log, Event("wait", PollInterval, op))
            /\ UNCHANGED <<veoAttempts, veoThrown>>
       ELSE /\ veoLog' = Append(log, Event("read", 0, op))
            /\ IF op.uri # 0
               THEN veoPc' = "fetch" /\ UNCHANGED <<veoAttempts, veoThrown>>
               ELSE LoopHead(veoAttempts)

\* A caller invokes handleVeoOperation.
StartVeo ==
    /\ veoPc = "idle"
    /\ LoopHead(0)
    /\ UNCHANGED <<operation, veoLog, videoUrl, asset, animatedMockup,
                   outsideVeo>>

\* videoGenerator() resolves.
SubmitReturns ==
    \E reply \in Replies(veoAttempts, 0) :
        /\ veoPc = "submit"
        /\ PollTest(reply, <<Event("reply", 0, reply)>>)
        /\ UNCHANGED <<videoUrl, asset, animatedMockup, outsideVeo>>

\* The 5 s timer fires and the status check is issued.
PollTimer ==
    /\ veoPc = "sleep"
    /\ veoPc' = "check"
    /\ veoLog' = Append(veoLog, Event("check", 0, operation))
    /\ UNCHANGED <<veoAttempts, operation, videoUrl, asset, animatedMockup,
                   veoThrown, outsideVeo>>

\* checkVideoOperationStatus(operation) resolves.
CheckReturns ==
    \E reply \in Replies(operation.job, operation.refreshed + 1) :
        /\ veoPc = "check"
        /\ PollTest(reply, Append(veoLog, Event("reply", 0, reply)))
        /\ UNCHANGED <<videoUrl, asset, animatedMockup, outsideVeo>>

\* fetch and blob() resolve; checkVideoResolution is started on the URL.
FetchReturns ==
    \E video \in Downloads(veoAttempts) :
        /\ veoPc = "fetch"
        /\ videoUrl' = video
        /\ veoPc' = "verify"
        /\ UNCHANGED <<veoAttempts, operation, veoLog, asset, animatedMockup,
                       veoThrown, outsideVeo>>

\* The video element fires loadedmetadata or error.
VerifyResolves ==
    /\ veoPc = "verify"
    /\ IF CheckVideoResolution(videoUrl)
       THEN /\ asset' = Asset("video", videoUrl)
            /\ veoPc' = "returned"
            /\ UNCHANGED <<veoAttempts, veoThrown>>
       ELSE /\ LoopHead(veoAttempts)
            /\ UNCHANGED asset
    /\ UNCHANGED <<operation, veoLog, videoUrl, animatedMockup, outsideVeo>>

\* videoGenerator, the status check or the download rejects: the error is
\* rethrown by the catch block.
AwaitThrows ==
    \E error \in Errors :
        /\ veoPc \in {"submit", "check", "fetch"}
        /\ veoPc' = "thrown"
        /\ veoThrown' = error
        /\ UNCHANGED <<veoAttempts, operation, veoLog, videoUrl, asset,
                       animatedMockup, outsideVeo>>

\* The caller commits the asset it was returned.
CommitVideo ==
    /\ veoPc = "returned"
    /\ animatedMockup' = asset
    /\ veoPc' = "committed"
    /\ UNCHANGED <<veoAttempts, operation, veoLog, videoUrl, asset, veoThrown,
                   outsideVeo>>

VeoNext ==
    \/ StartVeo
    \/ SubmitReturns
    \/ PollTimer
    \/ CheckReturns
    \/ FetchReturns
    \/ VerifyResolves
    \/ AwaitThrows
    \/ CommitVideo

-----------------------------------------------------------------------------
(* Database.open and Database.getStore (services/db.ts).  Open request r  *)
(* yields connection r.  A caller is a call of getStore; its await is on   *)
(* the value open() returned (a connection) or on the promise of an open   *)
(* request.  The continuation of an await whose promise is settled runs    *)
(* before the next event is delivered.                                     *)

MaxOpens == 3
Callers == {"A", "B"}
RequestIds == 1..MaxOpens

DbError(name, closing) == [name |-> name, closing |-> closing]
NoDbError == DbError("none", FALSE)

\* What db.transaction throws on a connection that is not open.
TxError == DbError("InvalidStateError", TRUE)

\* What an open request can fail with; closing says whether the message
\* includes 'closing'.
OpenErrors ==
    { DbError("UnknownError", FALSE),
      DbError("AbortError", TRUE),
      DbError("InvalidStateError", FALSE) }

NoRequest == [status |-> "unused", error |-> NoDbError]
Awaiting(kind, id) == [kind |-> kind, id |-> id]
Nothing == Awaiting("none", 0)

\* Lines 86-89: the error the catch block retries on.
IsStaleAlways(error) == TRUE

IsStale(error) ==
    LET isClosing == error.closing
        isInvalidState == error.name = "InvalidStateError"
    IN  isClosing \/ isInvalidState

InFlight == {r \in RequestIds : requests[r].status = "pending"}
Unused == {r \in RequestIds : requests[r].status = "unused"}
NextRequest == CHOOSE r \in Unused : \A q \in Unused : r <= q

\* The await of caller c can go on: it waits for a value or for a settled
\* promise.
Ready(c) ==
    /\ callPc[c] \in {"try", "retry"}
    /\ \/ awaited[c].kind = "value"
       \/ /\ awaited[c].kind = "request"
          /\ requests[awaited[c].id].status \in {"resolved", "rejected"}
NoMicrotask == \A c \in Callers : ~Ready(c)

\* A call can be made in a task of its own, or in the task of another call
\* whose await has not gone on yet; it cannot come between an event and
\* the continuations the event made ready.
CanCall == \A c \in Callers : Ready(c) => awaited[c].kind = "value"

\* open() can be run with this.db = d and this.openRequest = o.
CanOpen(d, o) == d # 0 \/ o # 0 \/ Unused # {}

\* Lines 13-75: open() run by caller c with this.db = d and
\* this.openRequest = o, up to its return.
OpenFrom(c, d, o) ==
    /\ dbConn' = d
    /\ IF d # 0
       THEN /\ awaited' = [awaited EXCEPT ![c] = Awaiting("value", d)]
            /\ openRequest' = o
            /\ UNCHANGED requests
       ELSE IF o # 0
       THEN /\ awaited' = [awaited EXCEPT ![c] = Awaiting("request", o)]
            /\ openRequest' = o
            /\ UNCHANGED requests
       ELSE /\ requests' = [requests EXCEPT ![NextRequest].status = "pending"]
            /\ openRequest' = NextRequest
            /\ awaited' = [awaited EXCEPT ![c] = Awaiting("request", NextRequest)]

DbInit ==
    /\ dbConn = 0
    /\ openRequest = 0
    /\ requests = [r \in RequestIds |-> NoRequest]
    /\ connState = [r \in RequestIds |-> "none"]
    /\ callPc = [c \in Callers |-> "idle"]
    /\ awaited = [c \in Callers |-> Nothing]
    /\ caught = [c \in Callers |-> NoDbError]
    /\ raised = [c \in Callers |-> NoDbError]
    /\ given = [c \in Callers |-> 0]

\* Lines 79-81: a call of getStore, up to its first await.
GetStore ==
    \E c \in Callers :
        /\ callPc[c] = "idle"
        /\ CanCall
        /\ CanOpen(dbConn, openRequest)
        /\ OpenFrom(c, dbConn, openRequest)
        /\ callPc' = [callPc EXCEPT ![c] = "try"]
        /\ UNCHANGED <<connState, caught, raised, given, outsideDb>>

\* What the await of caller c gives: the error of the rejected request, or
\* the error of db.transaction on the connection, or no error.
Outcome(c) ==
    IF awaited[c].kind = "request" /\ requests[awaited[c].id].status = "rejected"
    THEN requests[awaited[c].id].error
    ELSE IF connState[awaited[c].id] = "open" THEN NoDbError
    ELSE TxError

\* Lines 81-99: getStore goes on after an await, up to its next await or
\* to its end.
Resume ==
    \E c \in Callers :
        /\ Ready(c)
        /\ IF Outcome(c) = NoDbError
           THEN /\ callPc' = [callPc EXCEPT ![c] = "done"]
                /\ given' = [given EXCEPT ![c] = awaited[c].id]
                /\ awaited' = [awaited EXCEPT ![c] = Nothing]
                /\ UNCHANGED <<dbConn, openRequest, requests, caught, raised>>
           ELSE IF callPc[c] = "try" /\ IsStale(Outcome(c))
           THEN /\ CanOpen(0, 0)
                /\ caught' = [caught EXCEPT ![c] = Outcome(c)]
                /\ OpenFrom(c, 0, 0)
                /\ callPc' = [callPc EXCEPT ![c] = "retry"]
                /\ UNCHANGED <<raised, given>>
           ELSE /\ callPc' = [callPc EXCEPT ![c] = "failed"]
                /\ raised' = [raised EXCEPT ![c] = Outcome(c)]
                /\ awaited' = [awaited EXCEPT ![c] = Nothing]
                /\ UNCHANGED <<dbConn, openRequest, requests, caught, given>>
        /\ UNCHANGED <<connState, outsideDb>>

\* The caller of getStore has used the store, or handled the error.
CallOver ==
    \E c \in Callers :
        /\ callPc[c] \in {"done", "failed"}
        /\ callPc' = [callPc EXCEPT ![c] = "idle"]
        /\ caught' = [caught EXCEPT ![c] = NoDbError]
        /\ raised' = [raised EXCEPT ![c] = NoDbError]
        /\ given' = [given EXCEPT ![c] = 0]
        /\ UNCHANGED <<dbConn, openRequest, requests, connState, awaited, outsideDb>>

\* Lines 33-54: request.onsuccess.
OpenSucceeds ==
    \E r \in InFlight :
        /\ NoMicrotask
        /\ connState' = [connState EXCEPT ![r] = "open"]
        /\ dbConn' = r
        /\ openRequest' = 0
        /\ requests' = [requests EXCEPT ![r].status = "resolved"]
        /\ UNCHANGED <<callPc, awaited, caught, raised, given, outsideDb>>

\* Lines 27-31: request.onerror.
OpenFails ==
    \E r \in InFlight, error \in OpenErrors :
        /\ NoMicrotask
        /\ openRequest' = 0
        /\ requests' = [requests EXCEPT ![r] = [status |-> "rejected", error |-> error]]
        /\ UNCHANGED <<dbConn, connState, callPc, awaited, caught, raised, given,
                       outsideDb>>

\* The browser closes a connection; its close event is queued.
ConnectionDies ==
    \E d \in RequestIds :
        /\ NoMicrotask
        /\ connState[d] = "open"
        /\ connState' = [connState EXCEPT ![d] = "dying"]
        /\ UNCHANGED <<dbConn, openRequest, requests, callPc, awaited, caught,
                       raised, given, outsideDb>>

\* Lines 37-41: database.onclose.
OnClose ==
    \E d \in RequestIds :
        /\ NoMicrotask
        /\ connState[d] = "dying"
        /\ connState' = [connState EXCEPT ![d] = "closed"]
        /\ dbConn' = 0
        /\ openRequest' = 0
        /\ UNCHANGED <<requests, callPc, awaited, caught, raised, given, outsideDb>>

\* Lines 44-49: database.onversionchange.
OnVersionChange ==
    \E d \in RequestIds :
        /\ NoMicrotask
        /\ connState[d] = "open"
        /\ connState' = [connState EXCEPT ![d] = "closed"]
        /\ dbConn' = 0
        /\ openRequest' = 0
        /\ UNCHANGED <<requests, callPc, awaited, caught, raised, given, outsideDb>>

DbNext ==
    \/ GetStore
    \/ Resume
    \/ CallOver
    \/ OpenSucceeds
    \/ OpenFails
    \/ ConnectionDies
    \/ OnClose
    \/ OnVersionChange

-----------------------------------------------------------------------------
(* The App component (App.tsx): the state cells view, currentUser and      *)
(* isCheckingAuth.  A handler reads the cells as of the last render and    *)
(* queues its updates; a render applies the queue in order.                *)

MaxUpdates == 4
Users == {"u1", "u2"}
NoUser == "null"
Views == {"home", "editor", "login", "register"}

Update(cell, value) == [cell |-> cell, value |-> value]

\* Lines 81-85: the view handleNavigation sets.
NavigationTargetUnguarded(targetView, user) == targetView

NavigationTarget(targetView, user) ==
    IF targetView = "editor" /\ user = NoUser THEN "login" ELSE targetView

\* The cells after the queued updates have been applied, in order.
RECURSIVE ApplyUpdates(_, _)
ApplyUpdates(q, cells) ==
    IF q = <<>> THEN cells
    ELSE ApplyUpdates(Tail(q), [cells EXCEPT ![Head(q).cell] = Head(q).value])

AppInit ==
    /\ view = "home"
    /\ currentUser = NoUser
    /\ isCheckingAuth = TRUE
    /\ appQueue = <<>>
    /\ appPc = "initAuth"
    /\ logins = {}

\* Lines 38-51: initAuth goes on after getCurrentUser has settled.
InitAuth ==
    \E user \in Users \cup {NoUser} :
        /\ appPc = "initAuth"
        /\ appQueue' = appQueue
                \o (IF user # NoUser THEN <<Update("currentUser", user)>> ELSE <<>>)
                \o <<Update("isCheckingAuth", FALSE)>>
        /\ appPc' = "idle"
        /\ UNCHANGED <<view, currentUser, isCheckingAuth, logins, outsideApp>>

\* A handler of the rendered page can run: the page is not the loader, no
\* handler is running, and the queue has room.
CanHandle ==
    /\ appPc = "idle"
    /\ ~isCheckingAuth
    /\ Len(appQueue) < MaxUpdates

\* Lines 80-86: handleNavigation, called by HomePage.
HandleNavigation ==
    \E targetView \in Views :
        /\ CanHandle
        /\ view = "home"
        /\ appQueue' = Append(appQueue,
                              Update("view", NavigationTarget(targetView, currentUser)))
        /\ UNCHANGED <<view, currentUser, isCheckingAuth, appPc, logins, outsideApp>>

\* Lines 106, 108: the onNavigate of LoginPage and of RegisterPage.
SwitchForm ==
    /\ CanHandle
    /\ view \in {"login", "register"}
    /\ appQueue' = Append(appQueue,
                          Update("view", IF view = "login" THEN "register" ELSE "login"))
    /\ UNCHANGED <<view, currentUser, isCheckingAuth, appPc, logins, outsideApp>>

\* LoginPage or RegisterPage submits its form: the request is in progress.
Submit ==
    \E user \in Users :
        /\ CanHandle
        /\ view \in {"login", "register"}
        /\ logins' = logins \cup {user}
        /\ UNCHANGED <<view, currentUser, isCheckingAuth, appQueue, appPc, outsideApp>>

\* Line 89: handleLoginSuccess is called when the request has succeeded,
\* and sets the user.
HandleLoginSuccess ==
    \E user \in logins :
        /\ appPc = "idle"
        /\ Len(appQueue) < MaxUpdates
        /\ logins' = logins \ {user}
        /\ appQueue' = Append(appQueue, Update("currentUser", user))
        /\ appPc' = "setView"
        /\ UNCHANGED <<view, currentUser, isCheckingAuth, outsideApp>>

\* Line 90: handleLoginSuccess sets the view.
LoginSetView ==
    /\ appPc = "setView"
    /\ appQueue' = Append(appQueue, Update("view", "editor"))
    /\ appPc' = "idle"
    /\ UNCHANGED <<view, currentUser, isCheckingAuth, logins, outsideApp>>

\* Lines 93-97: handleLogout, the onClick of the editor's logout button.
HandleLogout ==
    /\ CanHandle
    /\ view = "editor"
    /\ currentUser # NoUser
    /\ appQueue' = appQueue \o <<Update("currentUser", NoUser), Update("view", "home")>>
    /\ UNCHANGED <<view, currentUser, isCheckingAuth, appPc, logins, outsideApp>>

\* A render of App: the queued updates are applied and renderContent runs
\* (lines 99-129); in the editor view without a user it sets the view.
AppRender ==
    /\ appQueue # <<>>
    /\ LET cells == ApplyUpdates(appQueue,
                                 [view |-> view, currentUser |-> currentUser,
                                  isCheckingAuth |-> isCheckingAuth])
       IN  /\ view' = cells.view
           /\ currentUser' = cells.currentUser
           /\ isCheckingAuth' = cells.isCheckingAuth
           /\ appQueue' = IF /\ ~cells.isCheckingAuth
                             /\ cells.view = "editor"
                             /\ cells.currentUser = NoUser
                          THEN <<Update("view", "login")>>
                          ELSE <<>>
    /\ UNCHANGED <<appPc, logins, outsideApp>>

AppNext ==
    \/ InitAuth
    \/ HandleNavigation
    \/ SwitchForm
    \/ Submit
    \/ HandleLoginSuccess
    \/ LoginSetView
    \/ HandleLogout
    \/ AppRender

-----------------------------------------------------------------------------
(* Database.createUser (services/db.ts) on the users store, whose key is   *)
(* id and whose index on email is unique.  A record is given by its id,    *)
(* email and passwordHash; the hash "absent" is a record without that      *)
(* property.                                                               *)

UserIds == {"user-1", "user-2"}
Emails == {"a@x", "b@x"}
Hashes == {"h1", "h2"}
Absent == "absent"

UserRecord(id, email, passwordHash) ==
    [id |-> id, email |-> email, passwordHash |-> passwordHash]
NoRecord == UserRecord("none", "none", Absent)
NewUsers == {UserRecord(id, email, hash) : id \in UserIds, email \in Emails, hash \in Hashes}

\* const { passwordHash, ...safeUser } = user
SafeUser(user) == UserRecord(user.id, user.email, Absent)

\* store.put(value) breaks the unique index on email.
ConstraintViolated(value) ==
    \E id \in UserIds :
        /\ id # value.id
        /\ users[id] # NoRecord
        /\ users[id].email = value.email

UserInit ==
    /\ users = [id \in UserIds |-> NoRecord]
    /\ cuPc = "idle"
    /\ cuUser = NoRecord
    /\ cuCaught = NoDbError
    /\ cuReturned = NoRecord

\* Lines 141-148: createUser(user) is called and awaits put.
CreateUser ==
    \E user \in NewUsers :
        /\ cuPc = "idle"
        /\ cuUser' = user
        /\ cuPc' = "put"
        /\ cuCaught' = NoDbError
        /\ cuReturned' = NoRecord
        /\ UNCHANGED <<users, outsideUsers>>

\* Lines 148, 156-157: put resolves; the record is stored as it was given
\* and the user without the hash is returned.
PutResolves ==
    /\ cuPc = "put"
    /\ ~ConstraintViolated(cuUser)
    /\ users' = [users EXCEPT ![cuUser.id] = cuUser]
    /\ cuReturned' = SafeUser(cuUser)
    /\ cuPc' = "returned"
    /\ UNCHANGED <<cuUser, cuCaught, outsideUsers>>

\* Lines 149-151: put rejects, with the ConstraintError of the index or
\* with an error of the transaction; getUserById is awaited.
PutRejects ==
    \E error \in {DbError("ConstraintError", FALSE), DbError("AbortError", FALSE)} :
        /\ cuPc = "put"
        /\ error.name = "ConstraintError" => ConstraintViolated(cuUser)
        /\ cuCaught' = error
        /\ cuPc' = "get"
        /\ UNCHANGED <<users, cuUser, cuReturned, outsideUsers>>

\* Lines 151-153, 170-173: getUserById resolves with the stored record or
\* with undefined.
GetResolves ==
    /\ cuPc = "get"
    /\ LET existing == users[cuUser.id]
       IN  IF existing # NoRecord
           THEN cuReturned' = existing /\ cuPc' = "returned"
           ELSE cuPc' = "thrown" /\ UNCHANGED cuReturned
    /\ UNCHANGED <<users, cuUser, cuCaught, outsideUsers>>

\* The caller has the result and may call again.
CreateUserOver ==
    /\ cuPc \in {"returned", "thrown"}
    /\ cuPc' = "idle"
    /\ cuUser' = NoRecord
    /\ cuCaught' = NoDbError
    /\ cuReturned' = NoRecord
    /\ UNCHANGED <<users, outsideUsers>>

UserNext ==
    \/ CreateUser
    \/ PutResolves
    \/ PutRejects
    \/ GetResolves
    \/ CreateUserOver

-----------------------------------------------------------------------------
(* The editor page (unnamed/part_016): the history of editor states, the   *)
(* cell isLoading and handleAnimate with its two tasks.  An editor state   *)
(* is given by staticMockup, animatedMockup and currentStep; an asset by   *)
(* the invocation that generated it (0 for an asset of a saved project)    *)
(* and its type.  All of these are written by JSON.stringify, so equal     *)
(* JSON texts are equal records.  A flat lay is selected throughout.       *)

\* Number of handleAnimate invocations.
MaxAnimations == 2

Animations == 1..MaxAnimations

MockupAsset(gen, type) == [gen |-> gen, type |-> type]
NoMockup == MockupAsset(0, "null")

EditorState(staticAsset, videoAsset, step) ==
    [staticMockup |-> staticAsset, animatedMockup |-> videoAsset,
     currentStep |-> step]

\* Lines 25-40.
INITIAL_EDITOR_STATE == EditorState(NoMockup, NoMockup, "upload")

\* The editor states of the projects the user has saved.
SavedStates ==
    {EditorState(MockupAsset(0, "image"), MockupAsset(0, "video"), "scene")}

\* animationConfig.generateStatic and generateVideo, as the user set them.
Configs == [generateStatic : BOOLEAN, generateVideo : BOOLEAN]

Tasks(static, video) == [static |-> static, video |-> video]
NoTasks == Tasks("none", "none")

\* ({ ...editorState, [field]: value }) with the editorState of the render
\* in which handleAnimate was called.
SpreadOfClosure(prev, g, field, value) == [closure[g] EXCEPT ![field] = value]

\* prev => ({ ...prev, [field]: value }) as invocation g passes it.
Spread(prev, g, field, value) == [prev EXCEPT ![field] = value]

\* useHistoryState.ts lines 23-43 for an editor state already resolved.
SetEditorStateUpdater(currentState, resolvedState, overwriteHistory) ==
    IF resolvedState = Current(currentState)
    THEN currentState
    ELSE LET historyToConsider ==
                 IF overwriteHistory THEN <<>>
                 ELSE SubSeq(currentState.history, 1, currentState.index + 1)
             newHistory == Append(historyToConsider, resolvedState)
         IN  [history |-> newHistory, index |-> Len(newHistory) - 1]

\* Promise.all(tasks) of invocation g.
AllFulfilled(g) ==
    /\ tasks[g].static \in {"none", "fulfilled"}
    /\ tasks[g].video \in {"none", "fulfilled"}
AllRejected(g) == tasks[g].static = "rejected" \/ tasks[g].video = "rejected"

\* The continuation of an await runs before the next event is handled.
NoContinuation ==
    \A g \in Animations : animPc[g] = "awaiting" => ~AllFulfilled(g) /\ ~AllRejected(g)

\* Line 810: while isLoading the Loader covers the page.
NoLoader == ~isLoading

EditorInit ==
    /\ editor = [history |-> <<INITIAL_EDITOR_STATE>>, index |-> 0]
    /\ isLoading = FALSE
    /\ editorError = "null"
    /\ animations = 0
    /\ tasks = [g \in Animations |-> NoTasks]
    /\ animPc = [g \in Animations |-> "idle"]
    /\ closure = [g \in Animations |-> INITIAL_EDITOR_STATE]

\* Lines 616-674: handleAnimate up to  await Promise.all(tasks) .
HandleAnimate ==
    \E config \in Configs :
        LET g == animations + 1
        IN  /\ NoLoader
            /\ NoContinuation
            /\ animations < MaxAnimations
            /\ animations' = g
            /\ closure' = [closure EXCEPT ![g] = Current(editor)]
            /\ isLoading' = TRUE
            /\ editorError' = "null"
            /\ tasks' = [tasks EXCEPT ![g] =
                   Tasks(IF config.generateStatic THEN "pending" ELSE "none",
                         IF config.generateVideo THEN "pending" ELSE "none")]
            /\ animPc' = [animPc EXCEPT ![g] = "awaiting"]
            /\ UNCHANGED <<editor, outsideEditor>>

\* Lines 635-643: generateStrict3DMockup returns and the task commits.
StaticReturns(g) ==
    /\ NoContinuation
    /\ tasks[g].static = "pending"
    /\ editor' = SetEditorStateUpdater(editor,
           Spread(Current(editor), g, "staticMockup", MockupAsset(g, "image")), FALSE)
    /\ tasks' = [tasks EXCEPT ![g].static = "fulfilled"]
    /\ UNCHANGED <<isLoading, editorError, animations, animPc, closure, outsideEditor>>

\* Line 635: generateStrict3DMockup throws.
StaticThrows(g) ==
    /\ NoContinuation
    /\ tasks[g].static = "pending"
    /\ tasks' = [tasks EXCEPT ![g].static = "rejected"]
    /\ UNCHANGED <<editor, isLoading, editorError, animations, animPc, closure,
                   outsideEditor>>

\* Lines 667-669: handleVeoOperation returns and the task commits.
VideoReturns(g) ==
    /\ NoContinuation
    /\ tasks[g].video = "pending"
    /\ editor' = SetEditorStateUpdater(editor,
           Spread(Current(editor), g, "animatedMockup", MockupAsset(g, "video")), FALSE)
    /\ tasks' = [tasks EXCEPT ![g].video = "fulfilled"]
    /\ UNCHANGED <<isLoading, editorError, animations, animPc, closure, outsideEditor>>

\* Line 667: handleVeoOperation throws.
VideoThrows(g) ==
    /\ NoContinuation
    /\ tasks[g].video = "pending"
    /\ tasks' = [tasks EXCEPT ![g].video = "rejected"]
    /\ UNCHANGED <<editor, isLoading, editorError, animations, animPc, closure,
                   outsideEditor>>

\* Lines 674-678, 688-690: Promise.all is fulfilled.
AllReturns(g) ==
    /\ animPc[g] = "awaiting"
    /\ AllFulfilled(g)
    /\ editor' = IF tasks[g].video = "fulfilled"
                 THEN SetEditorStateUpdater(editor,
                          Spread(Current(editor), g, "currentStep", "scene"), FALSE)
                 ELSE editor
    /\ isLoading' = FALSE
    /\ animPc' = [animPc EXCEPT ![g] = "over"]
    /\ UNCHANGED <<editorError, animations, tasks, closure, outsideEditor>>

\* Lines 674, 680-690: Promise.all is rejected by the first task that is.
AllThrows(g) ==
    /\ animPc[g] = "awaiting"
    /\ AllRejected(g)
    /\ editorError' = "message"
    /\ isLoading' = FALSE
    /\ animPc' = [animPc EXCEPT ![g] = "over"]
    /\ UNCHANGED <<editor, animations, tasks, closure, outsideEditor>>

\* Lines 762-767.
HandleLoadProject ==
    \E editorState \in SavedStates :
        /\ NoLoader
        /\ NoContinuation
        /\ editor' = SetEditorStateUpdater(editor, editorState, TRUE)
        /\ UNCHANGED <<isLoading, editorError, animations, tasks, animPc, closure,
                       outsideEditor>>

\* Lines 145-155.
CreateNewProject ==
    /\ NoLoader
    /\ NoContinuation
    /\ editor' = SetEditorStateUpdater(editor, INITIAL_EDITOR_STATE, TRUE)
    /\ UNCHANGED <<isLoading, editorError, animations, tasks, animPc, closure,
                   outsideEditor>>

\* Lines 878, 883: the undo and redo buttons.
EditorUndo ==
    /\ NoLoader
    /\ NoContinuation
    /\ editor.index > 0
    /\ editor' = UndoUpdater(editor)
    /\ UNCHANGED <<isLoading, editorError, animations, tasks, animPc, closure,
                   outsideEditor>>

EditorRedo ==
    /\ NoLoader
    /\ NoContinuation
    /\ editor.index < Len(editor.history) - 1
    /\ editor' = RedoUpdater(editor)
    /\ UNCHANGED <<isLoading, editorError, animations, tasks, animPc, closure,
                   outsideEditor>>

EditorNext ==
    \/ HandleAnimate
    \/ \E g \in Animations : StaticReturns(g)
    \/ \E g \in Animations : StaticThrows(g)
    \/ \E g \in Animations : VideoReturns(g)
    \/ \E g \in Animations : VideoThrows(g)
    \/ \E g \in Animations : AllReturns(g)
    \/ \E g \in Animations : AllThrows(g)
    \/ HandleLoadProject
    \/ CreateNewProject
    \/ EditorUndo
    \/ EditorRedo

-----------------------------------------------------------------------------
\* Lines 11-14: the cell of a freshly constructed container.
Fresh(v) == [history |-> <<v>>, index |-> 0]

Init ==
    /\ initialState \in Values
    /\ state = Fresh(initialState)
    /\ queue = <<>>
    /\ issued = <<>>
    /\ crashed = FALSE
    /\ callbacks = [setState |-> [ref |-> 0, deps |-> SetStateDeps],
                    undo |-> [ref |-> 0, deps |-> UndoDeps],
                    redo |-> [ref |-> 0, deps |-> RedoDeps]]
    /\ RetryInit
    /\ VeoInit
    /\ DbInit
    /\ AppInit
    /\ UserInit
    /\ EditorInit

\* Lines 22-23: setState(newState, overwriteHistory) queues its updater.
setState ==
    \E newState \in NewStates, overwriteHistory \in BOOLEAN :
        /\ Len(issued) < MaxOps
        /\ queue' = Append(queue, SetStateCall(newState, overwriteHistory))
        /\ issued' = Append(issued, SetStateCall(newState, overwriteHistory))
        /\ UNCHANGED <<initialState, state, crashed, callbacks, outsideHistory>>

\* Lines 50-51.
undo ==
    /\ Len(issued) < MaxOps
    /\ queue' = Append(queue, UndoCall)
    /\ issued' = Append(issued, UndoCall)
    /\ UNCHANGED <<initialState, state, crashed, callbacks, outsideHistory>>

\* Lines 63-64.
redo ==
    /\ Len(issued) < MaxOps
    /\ queue' = Append(queue, RedoCall)
    /\ issued' = Append(issued, RedoCall)
    /\ UNCHANGED <<initialState, state, crashed, callbacks, outsideHistory>>

\* Lines 44, 57, 70: the callbacks a render returns.
Memoize ==
    callbacks' = [setState |-> UseCallback(callbacks.setState, SetStateDeps'),
                  undo |-> UseCallback(callbacks.undo, UndoDeps'),
                  redo |-> UseCallback(callbacks.redo, RedoDeps')]

\* A render: React runs the queued updaters, and line 15 reads the cell.
\* When an updater throws, the render throws: none of the queued updates
\* reaches the cell, and React, finding no error boundary, unmounts the
\* component.
Render ==
    /\ queue # <<>>
    /\ LET result == RunQueue(queue, state)
       IN  IF result = Thrown
           THEN /\ crashed' = TRUE
                /\ UNCHANGED <<state, callbacks>>
           ELSE /\ state' = result
                /\ Memoize
                /\ UNCHANGED crashed
    /\ queue' = <<>>
    /\ UNCHANGED <<initialState, issued, outsideHistory>>

Next == setState \/ undo \/ redo \/ Render

Spec == Init /\ [][Next]_vars

\* setState with an update function that throws.
setStateThrowing ==
    \E overwriteHistory \in BOOLEAN :
        /\ Len(issued) < MaxOps
        /\ queue' = Append(queue, SetStateCall(Function("throw"), overwriteHistory))
        /\ issued' = Append(issued, SetStateCall(Function("throw"), overwriteHistory))
        /\ UNCHANGED <<initialState, state, crashed, callbacks, outsideHistory>>

\* The container used with update functions that may throw; nothing is
\* invoked on a component that has been unmounted.
FaultNext ==
    \/ ~crashed /\ setState
    \/ ~crashed /\ setStateThrowing
    \/ ~crashed /\ undo
    \/ ~crashed /\ redo
    \/ ~crashed /\ Render

FaultSpec == Init /\ [][FaultNext]_vars

\* One call of a service function.
RetrySpec == Init /\ [][RetryNext]_vars

\* One call of handleVeoOperation.
VeoSpec == Init /\ [][VeoNext]_vars

\* handleVeoOperation when every promise it awaits settles: each await is
\* followed by a step of the function.
VeoLiveSpec == Init /\ [][VeoNext]_vars /\ WF_vars(VeoNext)

\* The Database object used by two callers.
DbSpec == Init /\ [][DbNext]_vars

\* The App component.
AppSpec == Init /\ [][AppNext]_vars

\* Calls of createUser, one after another.
UserSpec == Init /\ [][UserNext]_vars

\* The editor page with handleAnimate, loading of projects, undo and redo.
EditorSpec == Init /\ [][EditorNext]_vars

\* The cell value a freshly constructed container reaches when the given
\* invocations take effect one at a time, in order.
Replay(calls) == RunQueue(calls, Fresh(initialState))

----------------------------------------------------------------------------
(* Sequential use: every invocation is followed by a render before the     *)
(* next one is made (one invocation per event).  A run is a number of      *)
(* setState invocations on a fresh container, then undo invocations, no    *)
(* more than there were setState invocations, and then either redo         *)
(* invocations, no more than there were undo invocations, or one more      *)
(* setState invocation.                                                    *)

NumOf(op) == Cardinality({i \in DOMAIN issued : issued[i].op = op})

\* A setState invocation was made after an undo.
Branched ==
    \E i, j \in DOMAIN issued :
        j < i /\ issued[j].op = "undo" /\ issued[i].op = "setState"

\* One invocation and the render that follows it.
Invoke(call) ==
    /\ queue = <<>>
    /\ state' = RunQueue(<<call>>, state)
    /\ Memoize
    /\ issued' = Append(issued, call)
    /\ UNCHANGED <<initialState, queue, crashed, outsideHistory>>

SeqSetState ==
    \E newState \in NewStates, overwriteHistory \in BOOLEAN :
        /\ ~Branched
        /\ NumOf("redo") = 0
        /\ NumOf("undo") = 0 => NumOf("setState") < MaxCommits
        /\ Invoke(SetStateCall(newState, overwriteHistory))

SeqUndo ==
    /\ ~Branched
    /\ NumOf("redo") = 0
    /\ NumOf("undo") < NumOf("setState")
    /\ Invoke(UndoCall)

SeqRedo ==
    /\ ~Branched
    /\ NumOf("redo") < NumOf("undo")
    /\ Invoke(RedoCall)

SeqNext == SeqSetState \/ SeqUndo \/ SeqRedo

SeqSpec == Init /\ [][SeqNext]_vars

----------------------------------------------------------------------------
(* Properties of the history container.  entries is state.history, cursor  *)
(* is state.index, "structurally equal" is StructEq, the equality rule of  *)
(* the container.                                                          *)

\* A render that runs exactly one queued updater, that of the given kind.
RendersOne(op) ==
    /\ Len(queue) = 1
    /\ Head(queue).op = op
    /\ queue' = <<>>

NoOverwriteIssued ==
    \A i \in DOMAIN issued :
        ~(issued[i].op = "setState" /\ issued[i].overwriteHistory)

Prefix(n) == SubSeq(issued, 1, n)

\* C1: in every reachable state entries is non-empty and
\* 0 <= cursor < entries.length.
C1_CursorInRange ==
    /\ Len(state.history) >= 1
    /\ state.index \in 0 .. Len(state.history) - 1

\* An undo at cursor 0 has been run: setState, undo, undo.
C1_Witness ==
    /\ queue = <<>>
    /\ NumOf("undo") = 2
    /\ Len(state.history) = 2
    /\ state.index = 0

\* C2: a non-overwrite commit of a value not structurally equal to the
\* current one, made at cursor c, leaves entries[0..c] followed by the new
\* value, cursor = c + 1 at the tail and canRedo false; and after
\* commit(v1), commit(v2), undo(), commit(v3) on a fresh container, where
\* each committed value differs from the value current at its commit (as
\* pairwise distinct values do), entries = [v0, v1, v3], canUndo is true and
\* canRedo is false.
C2_CommitStep ==
    LET call == issued'[Len(issued')]
        resolvedState == Resolve(call.newState, state)
    IN  (/\ Len(issued') = Len(issued) + 1
         /\ call.op = "setState"
         /\ ~call.overwriteHistory
         /\ ~StructEq(resolvedState, current))
        => /\ state'.history =
                  Append(SubSeq(state.history, 1, state.index + 1), resolvedState)
           /\ state'.index = state.index + 1
           /\ state'.index = Len(state'.history) - 1
           /\ ~canRedo'

C2_IsScenario ==
    /\ Len(issued) = 4
    /\ \A i \in {1, 2, 4} :
           /\ issued[i].op = "setState"
           /\ issued[i].newState.kind = "lit"
           /\ ~issued[i].overwriteHistory
    /\ issued[3].op = "undo"
    /\ ~StructEq(issued[1].newState.val, initialState)
    /\ ~StructEq(issued[2].newState.val, issued[1].newState.val)
    /\ ~StructEq(issued[4].newState.val, issued[1].newState.val)

C2_Scenario ==
    C2_IsScenario =>
        /\ state.history =
               <<initialState, issued[1].newState.val, issued[4].newState.val>>
        /\ canUndo
        /\ ~canRedo

C2_BranchTruncation == [][C2_CommitStep]_vars /\ []C2_Scenario

\* The scenario has run and v2 is in no entry.
C2_Witness ==
    /\ C2_IsScenario
    /\ Len(state.history) = 3
    /\ \A i \in 1..3 : ~StructEq(state.history[i], issued[2].newState.val)

\* C3: commit(v1, overwrite = true) from any prior state leaves
\* entries = [v1], cursor = 0, canUndo false and canRedo false.
C3_OverwriteResets ==
    [][RendersOne("setState") /\ Head(queue).overwriteHistory
       => /\ Len(state'.history) = 1
          /\ StructEq(state'.history[1], Resolve(Head(queue).newState, state))
          /\ state'.index = 0
          /\ ~canUndo'
          /\ ~canRedo']_vars

C5_NoAdjacentEqual ==
    \A i \in 1 .. Len(state.history) - 1 :
        ~StructEq(state.history[i], state.history[i + 1])

\* Three commits have run, one of them absorbed as a no-op.
C5_Witness ==
    /\ queue = <<>>
    /\ NumOf("setState") = 3
    /\ Len(state.history) = 3
    /\ state.index = 2

\* C6, as claimed: in every reachable state entries[0] is the initial value.
C6_InitialKept == state.history[1] = initialState

\* C6, amended: in every state reached without an overwrite commit
\* entries[0] is the initial value: no sequence of non-overwrite commit,
\* undo and redo removes or replaces index 0.
C6_InitialKeptWithoutOverwrite ==
    NoOverwriteIssued => state.history[1] = initialState

\* A commit, an undo and a commit that truncates, none with the overwrite flag.
C6_Witness ==
    /\ NoOverwriteIssued
    /\ queue = <<>>
    /\ Len(issued) = 3
    /\ NumOf("undo") = 1
    /\ Len(state.history) = 2
    /\ state.index = 1

\* C7: after any commits on a fresh container, k undos (k no more than the
\* number of commits) and k redos, entries and cursor, and so current, are
\* what they were right before the undos.
C7_UndoRedoRoundTrip ==
    (/\ ~Branched
     /\ NumOf("undo") >= 1
     /\ NumOf("redo") = NumOf("undo"))
    => state = Replay(Prefix(NumOf("setState")))

\* Two commits that took effect, two undos down to index 0, two redos.
C7_Witness ==
    /\ NumOf("undo") = 2
    /\ NumOf("redo") = 2
    /\ Len(state.history) = 3
    /\ state.index = 2

\* C8: two function-form commits f(prev) = prev + 1 issued back to back
\* from the same render leave a current value that is the value of that
\* render + 2.
C8_TwoIncrements ==
    [][(/\ Len(queue) = 2
        /\ \A i \in {1, 2} :
               /\ queue[i].op = "setState"
               /\ queue[i].newState = Function("inc")
        /\ queue' = <<>>)
       => Current(state').count = current.count + 2]_vars

C8_Witness ==
    /\ queue = <<>>
    /\ Len(issued) = 2
    /\ \A i \in {1, 2} : issued[i] = SetStateCall(Function("inc"), FALSE)
    /\ current.count = initialState.count + 2
    /\ Len(state.history) = 3

\* C9: the queued invocations take effect one at a time in the order they
\* were issued: running the queue on the cell gives what the invocations
\* give when each is applied, in order, to the result of the one before.
C9_IssueOrder == RunQueue(queue, state) = Replay(issued)

\* One invocation has been rendered and two more are queued after it.
C9_Witness ==
    /\ Len(issued) = 3
    /\ Len(queue) = 2
    /\ state # Fresh(initialState)
    /\ RunQueue(queue, state) # state

\* C10: N commits on a fresh container, each of a value that differs from
\* the value before it (as distinct values do), none with the overwrite
\* flag, leave entries.length = N + 1 and cursor = N.
C10_LinearGrowth ==
    (/\ queue = <<>>
     /\ \A i \in DOMAIN issued :
            /\ issued[i].op = "setState"
            /\ ~issued[i].overwriteHistory
            /\ ~StructEq(Resolve(issued[i].newState, Replay(Prefix(i - 1))),
                         Current(Replay(Prefix(i - 1)))))
    => /\ Len(state.history) = Len(issued) + 1
       /\ state.index = Len(issued)

C10_Witness ==
    /\ queue = <<>>
    /\ NumOf("setState") = MaxOps
    /\ Len(state.history) = MaxOps + 1
    /\ state.index = MaxOps


\* C11: a freshly constructed container with initial value v0 has
\* entries = [v0], cursor = 0, current = v0, canUndo false and canRedo false.
C11_Seed ==
    issued = <<>> =>
        /\ state.history = <<initialState>>
        /\ state.index = 0
        /\ current = initialState
        /\ ~canUndo
        /\ ~canRedo

\* The container right after construction, with the largest initial value.
C11_Witness ==
    /\ issued = <<>>
    /\ queue = <<>>
    /\ initialState = Value(MaxVal, "absent")
    /\ current = initialState

\* C12: undo changes the cell exactly when canUndo is true and redo exactly
\* when canRedo is true: undo at cursor 0 and redo at the tail leave entries
\* and cursor unchanged.
C12_BoundaryNoOps ==
    /\ [][RendersOne("undo") => (state' # state <=> canUndo)]_vars
    /\ [][RendersOne("redo") => (state' # state <=> canRedo)]_vars

\* A commit, an undo that moved the cursor to 0 and an undo at cursor 0 have
\* been run: the cell is as the first undo left it.
C12_Witness ==
    /\ queue = <<>>
    /\ Len(issued) = 3
    /\ issued[1].op = "setState"
    /\ issued[2].op = "undo"
    /\ issued[3].op = "undo"
    /\ Len(state.history) = 2
    /\ state.index = 0

\* C13: undo and redo never change entries and move cursor by one step or
\* not at all; only a render that runs a commit can change entries.
C13_OnlyCommitChangesEntries ==
    /\ [][(\A i \in DOMAIN queue : queue[i].op # "setState")
          => state'.history = state.history]_vars
    /\ [][RendersOne("undo")
          => state'.index \in {state.index, state.index - 1}]_vars
    /\ [][RendersOne("redo")
          => state'.index \in {state.index, state.index + 1}]_vars

\* A commit, then an undo and a redo that each moved the cursor.
C13_Witness ==
    /\ queue = <<>>
    /\ Len(issued) = 3
    /\ issued[2].op = "undo"
    /\ issued[3].op = "redo"
    /\ Len(state.history) = 2
    /\ state.index = 1


\* C14: when the update function of a commit throws while it is resolved,
\* entries and cursor are after the failed commit what they were before it.
C14_ThrowLeavesState ==
    [][(/\ queue # <<>>
        /\ queue' = <<>>
        /\ \E i \in DOMAIN queue :
               queue[i].op = "setState" /\ Throws(queue[i].newState))
       => state' = state]_vars

\* A commit, an undo and a throwing commit have been run: the entry after
\* the cursor is still there.
C14_Witness ==
    /\ crashed
    /\ Len(state.history) = 2
    /\ state.index = 0

\* C15: the setState, undo and redo functions handed to callers are the
\* same functions in every state of the container's lifetime.
C15_StableCallbacks ==
    /\ callbacks.setState.ref = 0
    /\ callbacks.undo.ref = 0
    /\ callbacks.redo.ref = 0

\* Three renders, each of which changed the cell.
C15_Witness ==
    /\ queue = <<>>
    /\ Len(issued) = 3
    /\ issued[2].op = "undo"
    /\ issued[3].op = "redo"
    /\ state.index = 1
    /\ callbacks.setState.ref = 0


\* What a claim calls a transient failure: the text of the error carries
\* '503', 'unavailable' or 'overloaded', in any letter case.
Carries(error) ==
    LET text == ToLowerCase(IF error.message # <<>> THEN error.message
                            ELSE error.string)
    IN  \E marker \in {"503", "unavailable", "overloaded"} : Includes(text, marker)

Failed == Len(failures') = Len(failures) + 1
LastFailure == failures'[Len(failures')]

\* C16: withRetry makes the wrapped call at most 3 times; it goes on to a
\* retry only after a failure that carries a transient marker and with
\* attempts remaining; a failure without a marker is rethrown at once, and
\* so is the failure of the third call.
C16_RetryPolicy ==
    /\ [][apiCalls' <= 3]_vars
    /\ [][(Failed /\ retryPc' = "waiting")
              => Carries(LastFailure) /\ apiCalls' < 3]_vars
    /\ [][(Failed /\ ~Carries(LastFailure))
              => retryPc' = "thrown" /\ thrown' = LastFailure]_vars
    /\ [][(Failed /\ apiCalls' = 3)
              => retryPc' = "thrown" /\ thrown' = LastFailure]_vars
    /\ [][retryPc = "thrown" => apiCalls' = apiCalls]_vars

\* geminiService's withRetry has rethrown the third transient failure.
C16_Witness ==
    /\ version = "geminiService"
    /\ serviceFn = "transformImage"
    /\ retryPc = "thrown"
    /\ apiCalls = 3
    /\ \A i \in 1..3 : Carries(failures[i])
    /\ thrown = failures[3]

\* C17: a transient failure of a video submission or of a status check
\* reaches the caller only after the call has been made as many times as
\* the retry bound allows.
C17_VideoCallsRetried ==
    (serviceFn \in VideoFns /\ retryPc = "thrown" /\ Carries(thrown))
        => apiCalls = MaxRetries

\* C18: the n-th wait lasts 2000 * 2^(n-1) ms (2000, then 4000); each wait
\* follows a transient failure of a call that was not the last one allowed,
\* and the call that succeeded or whose error was rethrown is followed by
\* no wait.
C18_Backoff ==
    /\ Len(waits) <= 2
    /\ \A n \in DOMAIN waits :
           /\ waits[n] = 2000 * 2^(n - 1)
           /\ Carries(failures[n])
           /\ n < 3
    /\ Len(waits) >= 1 => waits[1] = 2000
    /\ Len(waits) >= 2 => waits[2] = 4000
    /\ retryPc \in {"waiting", "calling"} => Len(waits) = apiCalls
    /\ retryPc \in {"returned", "thrown"} => Len(waits) = apiCalls - 1

\* Two transient failures, two waits, and a third call that succeeded.
C18_Witness ==
    /\ version = "geminiService"
    /\ retryPc = "returned"
    /\ apiCalls = 3
    /\ waits = <<2000, 4000>>


Events(ev) == {i \in DOMAIN veoLog : veoLog[i].ev = ev}

\* C19: a status check is issued only on a handle that is not done, right
\* after a wait of 5000 ms, and with the handle of the latest reply; the
\* handle in use is always the latest reply; the link is read only from a
\* done handle.
C19_PollLoop ==
    /\ \A i \in Events("wait") : veoLog[i].ms = 5000
    /\ \A i \in Events("check") :
           /\ ~veoLog[i].op.done
           /\ i > 2
           /\ veoLog[i - 1].ev = "wait"
           /\ veoLog[i - 2].ev = "reply"
           /\ veoLog[i - 2].op = veoLog[i].op
    /\ \A i \in Events("reply") :
           i > 1 => /\ veoLog[i - 1].ev = "check"
                    /\ veoLog[i].op.job = veoLog[i - 1].op.job
                    /\ veoLog[i].op.refreshed = veoLog[i - 1].op.refreshed + 1
    /\ \A i \in Events("read") :
           /\ veoLog[i].op.done
           /\ veoLog[i - 1].ev = "reply"
           /\ veoLog[i - 1].op = veoLog[i].op
    /\ \A i \in Events("reply") :
           (\A j \in Events("reply") : j <= i) => operation = veoLog[i].op

\* Two status checks were made before the job was done and its link read.
C19_Witness ==
    /\ veoPc = "fetch"
    /\ operation.done
    /\ operation.refreshed = 2
    /\ Cardinality(Events("check")) = 2

HighRes(video) ==
    video.loads /\ (video.videoWidth >= 1080 \/ video.videoHeight >= 1080)

\* C20: the asset handleVeoOperation returns, and the one the caller
\* commits, holds the video that was checked in the returning attempt, and
\* that video loaded with width >= 1080 or height >= 1080.
C20_OnlyCheckedVideo ==
    /\ veoPc = "returned" =>
           /\ asset.type = "video"
           /\ asset.processedUrl = videoUrl
           /\ videoUrl.id = veoAttempts
    /\ asset # NoAsset => HighRes(asset.processedUrl)
    /\ animatedMockup # NoAsset => HighRes(animatedMockup.processedUrl)
    /\ (videoUrl # NoVideo /\ ~HighRes(videoUrl)) =>
           veoPc \notin {"returned", "committed"}

\* Two downloads were below the resolution wanted and the third, which
\* passed, is committed.
C20_Witness ==
    /\ veoPc = "committed"
    /\ veoAttempts = 3
    /\ animatedMockup.processedUrl.id = 3
    /\ animatedMockup.processedUrl.videoHeight = 1080


\* A reply has come in that ends the poll loop without a download link.
NoLinkReply ==
    /\ veoLog' # veoLog
    /\ operation'.done
    /\ operation'.uri = 0

\* The resolution check has just failed on the downloaded video.
LowResResult ==
    /\ veoPc = "verify"
    /\ veoPc' # "verify"
    /\ ~HighRes(videoUrl)

\* C21: the job is submitted at most 3 times; a result below the threshold
\* or a done job with no link leads to a new submission, with a new job,
\* when it is the first or the second, and to the thrown terminal error
\* when it is the third.
C21_AtMostThreeSubmissions ==
    /\ [][(veoPc # "submit" /\ veoPc' = "submit")
              => veoAttempts' = veoAttempts + 1 /\ veoAttempts' <= 3]_vars
    /\ [][((NoLinkReply \/ LowResResult) /\ veoAttempts < 3)
              => veoPc' = "submit" /\ veoAttempts' = veoAttempts + 1]_vars
    /\ [][((NoLinkReply \/ LowResResult) /\ veoAttempts >= 3)
              => veoPc' = "thrown" /\ veoThrown' = LowResolution]_vars
    /\ [][(veoPc = "submit" /\ veoLog' # veoLog)
              => operation'.job = veoAttempts /\ operation'.refreshed = 0]_vars

\* Three submissions, the third of which also gave a low-resolution video.
C21_Witness ==
    /\ veoPc = "thrown"
    /\ veoThrown = LowResolution
    /\ veoAttempts = 3
    /\ videoUrl.id = 3
    /\ videoUrl.loads

\* C25: once started, handleVeoOperation returns an asset or throws; the
\* poll loop is left only with a done handle or by a thrown error.
C25_Terminates ==
    /\ (veoPc # "idle") ~> (veoPc \in {"returned", "committed", "thrown"})
    /\ [][(veoPc \in {"sleep", "check"} /\ veoPc' \notin {"sleep", "check"})
              => operation'.done \/ veoPc' = "thrown"]_vars

\* An attempt made as many status checks as the service asked for, and the
\* function returned.
C25_Witness ==
    /\ veoPc = "returned"
    /\ Cardinality(Events("check")) = MaxPolls
    /\ veoAttempts = 2

\* C26: an error withRetry takes for transient is shown to the user as
\* 'Service Overloaded'.
C26_TransientShownAsOverloaded ==
    (retryPc = "reported" /\ version = "part_011" /\ IsRetryable(version, thrown))
        => uiError = "Service Overloaded"

\* C27: withRetry ends by returning the value of the first call that
\* succeeded or by rethrowing the error of the last call that failed; it
\* never throws 'Exhausted all retries.'.
C27_NoExhausted ==
    /\ thrown # Exhausted
    /\ retryPc \in {"thrown", "reported"} =>
           /\ failures # <<>>
           /\ thrown = failures[Len(failures)]
           /\ Len(failures) = apiCalls
    /\ retryPc = "returned" => Len(failures) = apiCalls - 1
    /\ retryPc = "waiting" => attempts < MaxRetries

\* Three transient failures in part_012's withRetry around a video call:
\* the third is the error thrown.
C27_Witness ==
    /\ version = "part_012"
    /\ serviceFn = "checkVideoOperationStatus"
    /\ retryPc = "thrown"
    /\ attempts = 3
    /\ Len(waits) = 2
    /\ thrown = failures[3]


\* C22: at most one indexedDB.open request is in flight.
C22_OneOpenInFlight == Cardinality(InFlight) <= 1

\* C30: a call of getStore goes to its retry only from the first attempt,
\* on a closing or InvalidStateError failure, with db and openRequest reset
\* (the retry's open() makes a new request); any other error of the first
\* attempt, and the error of the retry, is the error the call throws.
C30_RetryOnce ==
    /\ [][\A c \in Callers :
            (callPc[c] # "retry" /\ callPc'[c] = "retry") =>
                /\ callPc[c] = "try"
                /\ caught'[c] = Outcome(c)
                /\ caught'[c].closing \/ caught'[c].name = "InvalidStateError"
                /\ dbConn' = 0
                /\ openRequest' \in Unused
                /\ awaited'[c] = Awaiting("request", openRequest')]_vars
    /\ [][\A c \in Callers :
            (callPc[c] = "retry" /\ callPc'[c] # "retry") =>
                /\ callPc'[c] \in {"done", "failed"}
                /\ Outcome(c) # NoDbError =>
                       callPc'[c] = "failed" /\ raised'[c] = Outcome(c)]_vars
    /\ [][\A c \in Callers :
            (/\ callPc[c] = "try"
             /\ callPc'[c] # "try"
             /\ Outcome(c) # NoDbError
             /\ ~Outcome(c).closing
             /\ Outcome(c).name # "InvalidStateError") =>
                callPc'[c] = "failed" /\ raised'[c] = Outcome(c)]_vars

\* A call retried on a stale connection and its retry failed as well.
C30_Witness ==
    /\ callPc["A"] = "failed"
    /\ caught["A"] = TxError
    /\ raised["A"] = DbError("AbortError", TRUE)


\* C28: whenever the view is 'editor' there is a current user; a queued
\* move to the editor was made with a user rendered or right after the
\* update that sets one; the update that clears the user is followed at
\* once by the move to the home view.
C28_EditorHasUser ==
    /\ view = "editor" => currentUser # NoUser
    /\ \A i \in DOMAIN appQueue :
           (appQueue[i] = Update("view", "editor")) =>
               \/ currentUser # NoUser
               \/ /\ i > 1
                  /\ appQueue[i - 1].cell = "currentUser"
                  /\ appQueue[i - 1].value # NoUser
    /\ \A i \in DOMAIN appQueue :
           (appQueue[i] = Update("currentUser", NoUser)) =>
               i < Len(appQueue) /\ appQueue[i + 1] = Update("view", "home")

\* The editor is shown to u2 while the request of u1 is still in progress.
C28_Witness ==
    /\ view = "editor"
    /\ currentUser = "u2"
    /\ logins = {"u1"}
    /\ appQueue = <<>>


\* C29: the record createUser returns has no passwordHash.
C29_NoHashReturned ==
    cuPc = "returned" => cuReturned.passwordHash = Absent


\* The assets invocation g commits.
StaticOf(g) == MockupAsset(g, "image")
VideoOf(g) == MockupAsset(g, "video")

\* C23: a task's commit writes its own field and leaves the field of the
\* other task as it was, and when both tasks of an invocation have
\* committed the current editor state holds its static mockup and its
\* animated mockup, whichever task committed first.
C23_BothMockupsKept ==
    [][\A g \in Animations :
          /\ (tasks[g].static = "pending" /\ tasks'[g].static = "fulfilled") =>
                 /\ Current(editor').staticMockup = StaticOf(g)
                 /\ Current(editor').animatedMockup = Current(editor).animatedMockup
          /\ (tasks[g].video = "pending" /\ tasks'[g].video = "fulfilled") =>
                 /\ Current(editor').animatedMockup = VideoOf(g)
                 /\ Current(editor').staticMockup = Current(editor).staticMockup
          /\ (tasks[g] # tasks'[g] /\ tasks'[g] = Tasks("fulfilled", "fulfilled")) =>
                 /\ Current(editor').staticMockup # NoMockup
                 /\ Current(editor').animatedMockup # NoMockup
      ]_vars

\* Both tasks of an invocation have committed, the video first, and the
\* current editor state holds both assets.
C23_BothMockupsKept_Witness ==
    \E g \in Animations :
        /\ tasks[g] = Tasks("fulfilled", "fulfilled")
        /\ animPc[g] = "awaiting"
        /\ Current(editor).staticMockup = StaticOf(g)
        /\ Current(editor).animatedMockup = VideoOf(g)
        /\ \E i \in DOMAIN editor.history :
               /\ editor.history[i].animatedMockup = VideoOf(g)
               /\ editor.history[i].staticMockup # StaticOf(g)

\* C24: while a task of handleAnimate has not settled, isLoading is true.
C24_LoadingUntilSettled ==
    (\E g \in Animations : "pending" \in {tasks[g].static, tasks[g].video}) => isLoading

====
